---------------------------- MODULE Spec2Model ----------------------------
(***************************************************************************)
(* Model of the numeral-to-name pipeline of                                *)
(* PatentAutomate/Image_Experiment/openai_exp_2_boundingboxes.py:          *)
(* geometry helpers, the vocabulary builder, the OCR numeral locator and   *)
(* run(), the orchestrator.                                                *)
(*                                                                         *)
(* A Python str is a sequence of one-character strings.  A number with a   *)
(* fractional part (a confidence, the threshold) is counted in tenths.     *)
(* The reply of an oracle is modelled by what the code can observe of it:  *)
(* the call raised, the message held no content, or the content is a text  *)
(* that json.loads rejects or turns into a JSON value.                     *)
(***************************************************************************)
EXTENDS Integers, Sequences, FiniteSets, TLC

VARIABLES
    \* clamp / pad_xyxy applied to one box (specification SpecGeom)
    g_box, g_W, g_H, g_out, g_pc,
    g_pad,        \* the argument pad of pad_xyxy
    g_once,       \* pad_xyxy(g_box, g_pad, g_W, g_H)
    g_twice,      \* pad_xyxy applied to g_once
    g_crops,      \* the regions make_crops hands to pil.crop
    \* ocr_numerals applied to one OCR result (specification SpecOcr)
    o_data, o_W, o_H, o_hits, o_pc,
    \* extract_vocab_with_gpt applied to one text (specification SpecVocab)
    v_text, v_reply, v_out, v_pc,
    \* one call of run (specification Spec)
    pc,           \* where run is
    conf_thresh,  \* run's argument, in tenths
    claims_path,  \* run's argument: "" or a path
    claims,       \* the reference text read
    vocab,        \* the vocabulary built
    vocab_calls,  \* calls made to the vocabulary oracle
    vocab_log,    \* the replies the vocabulary oracle made to those calls
    io_log,       \* the file, OCR and oracle accesses run has made, in order
    size,         \* <<W, H>> of the image opened
    hits,         \* what ocr_numerals returned
    todo,         \* the sorted hits still to classify
    components,   \* the records appended so far
    vlm_log,      \* the classifier calls made: [num_id, box, crops, vocab, reply]
    written,      \* the documents written to out_path, in order
    out_file,     \* what is at out_path: "untouched", "document" or "truncated"
    error,        \* the exception that ended run, "" if none
    \* correct_confusion and ocr_numerals on one token (specification SpecTok)
    t_text, t_fixed, t_hits, t_pc,
    \* one call of make_api_call_with_retry (specification SpecRetry)
    r_max,        \* the argument max_retries
    r_delay,      \* CONFIG["api_delay"], in seconds
    r_attempt,    \* the loop variable attempt of the next turn
    r_calls,      \* the replies of the API calls made, in order
    r_sleeps,     \* the time.sleep calls made: [before |-> attempt, secs |-> n]
    r_out,        \* what the call returned or raised
    r_pc,
    \* one call of generate_chunked_desc (specification SpecChunk)
    c_claims,     \* the argument claims
    c_split,      \* claims_split
    c_next,       \* index in claims_split of the loop's next claim
    c_messages,   \* messages
    c_sent,       \* the messages lists sent to the oracle, in order
    c_full,       \* full_generation
    c_out,        \* what the call returned or raised
    c_pc

geomVars  == << g_box, g_W, g_H, g_out, g_pc, g_pad, g_once, g_twice, g_crops >>
ocrVars   == << o_data, o_W, o_H, o_hits, o_pc >>
vocabVars == << v_text, v_reply, v_out, v_pc >>
runVars   == << pc, conf_thresh, claims_path, claims, vocab, vocab_calls, vocab_log,
                io_log, size, hits, todo, components, vlm_log, written, out_file,
                error >>

tokVars   == << t_text, t_fixed, t_hits, t_pc >>
retryVars == << r_max, r_delay, r_attempt, r_calls, r_sleeps, r_out, r_pc >>
chunkVars == << c_claims, c_split, c_next, c_messages, c_sent, c_full, c_out, c_pc >>

vars == << geomVars, ocrVars, vocabVars, runVars, tokVars, retryVars, chunkVars >>

-----------------------------------------------------------------------------
(* Python built-ins on integers and strings *)

max(a, b) == IF a >= b THEN a ELSE b
min(a, b) == IF a <= b THEN a ELSE b

\* the characters of the model's strings, with their code points; "U0130" is
\* the one character LATIN CAPITAL LETTER I WITH DOT ABOVE, "U0307" the one
\* character COMBINING DOT ABOVE and "UD800" the lone surrogate U+D800
Digits == <<"0","1","2","3","4","5","6","7","8","9">>
Uppers == <<"A","B","C","D","E","F","G","H","I","J","K","L","M",
            "N","O","P","Q","R","S","T","U","V","W","X","Y","Z">>
Lowers == <<"a","b","c","d","e","f","g","h","i","j","k","l","m",
            "n","o","p","q","r","s","t","u","v","w","x","y","z">>

IndexIn(seq, c) == CHOOSE i \in 1..Len(seq) : seq[i] = c
InSeq(seq, c) == \E i \in 1..Len(seq) : seq[i] = c

Range(seq) == {seq[i] : i \in DOMAIN seq}

\* the sequences of at most n elements of S
RECURSIVE SeqsUpTo(_, _)
SeqsUpTo(S, n) ==
    IF n = 0 THEN { <<>> }
    ELSE LET shorter == SeqsUpTo(S, n - 1) IN
         shorter \cup { Append(q, x) : q \in shorter, x \in S }

\* ord(c), tabulated once
OrdTable ==
    [c \in Range(Digits) \cup Range(Uppers) \cup Range(Lowers)
           \cup {"\t", "\n", " ", "-", ".", "_", "U0130", "U0307"} |->
        IF InSeq(Digits, c) THEN 47 + IndexIn(Digits, c)
        ELSE IF InSeq(Uppers, c) THEN 64 + IndexIn(Uppers, c)
        ELSE IF InSeq(Lowers, c) THEN 96 + IndexIn(Lowers, c)
        ELSE IF c = "\t" THEN 9
        ELSE IF c = "\n" THEN 10
        ELSE IF c = " " THEN 32
        ELSE IF c = "-" THEN 45
        ELSE IF c = "." THEN 46
        ELSE IF c = "U0130" THEN 304
        ELSE IF c = "U0307" THEN 775
        ELSE 95]

Ord(c) == OrdTable[c]

IsSpace(c) == c \in {" ", "\t", "\n"}
IsDigit(c) == InSeq(Digits, c)
IsAlpha(c) == InSeq(Uppers, c) \/ InSeq(Lowers, c)

\* c.lower(), a str: U+0130 lowers to the two characters "i" U+0307
LowerChar(c) ==
    IF InSeq(Uppers, c) THEN << Lowers[IndexIn(Uppers, c)] >>
    ELSE IF c = "U0130" THEN << "i", "U0307" >>
    ELSE << c >>

\* s.lower(): the characters' lowerings, concatenated
Lower(s) ==
    IF \A i \in 1..Len(s) : s[i] # "U0130"
    THEN [i \in 1..Len(s) |-> LowerChar(s[i])[1]]
    ELSE LET before == [i \in 0..Len(s) |->
                          i + Cardinality({j \in 1..i : s[j] = "U0130"})]
         IN  [p \in 1..before[Len(s)] |->
                LET i == CHOOSE k \in 1..Len(s) : before[k - 1] < p /\ p <= before[k]
                IN  LowerChar(s[i])[p - before[i - 1]]]

RECURSIVE LStrip(_)
LStrip(s) ==
    IF s # <<>> /\ IsSpace(Head(s)) THEN LStrip(Tail(s)) ELSE s

RECURSIVE RStrip(_)
RStrip(s) ==
    IF s # <<>> /\ IsSpace(s[Len(s)]) THEN RStrip(SubSeq(s, 1, Len(s) - 1)) ELSE s

\* s.strip()
Strip(s) == RStrip(LStrip(s))

\* a < b on str: code point by code point, a proper prefix first
StrLess(a, b) ==
    LET differ == {i \in 1..min(Len(a), Len(b)) : a[i] # b[i]} IN
    IF differ = {} THEN Len(a) < Len(b)
    ELSE LET k == CHOOSE i \in differ : \A j \in differ : i <= j
         IN  Ord(a[k]) < Ord(b[k])

-----------------------------------------------------------------------------
(* Geometry: clamp, pad_xyxy; a box is <<x1, y1, x2, y2>> *)

\* clamp without the floor at 0 on x1
clamp_no_floor(x1, y1, x2, y2, W, H) ==
    << x1, max(0, y1), min(W, x2), min(H, y2) >>

clamp(x1, y1, x2, y2, W, H) ==
    << max(0, x1), max(0, y1), min(W, x2), min(H, y2) >>

\* pad_xyxy returning the padded box as it is, not clamped
pad_xyxy_unclamped(box, pad, W, H) ==
    << box[1] - pad, box[2] - pad, box[3] + pad, box[4] + pad >>

pad_xyxy(box, pad, W, H) ==
    clamp(box[1] - pad, box[2] - pad, box[3] + pad, box[4] + pad, W, H)

\* area(b) of ocr_numerals
area(b) == max(0, b[3] - b[1]) * max(0, b[4] - b[2])

-----------------------------------------------------------------------------
(* 1) OCR numerals + boxes: the numeral locator *)

\* [a-z] with re.IGNORECASE on a str pattern: the 52 ASCII letters and the
\* characters whose case folding is one of them, of which U+0130 is drawn
MatchesLetterClass(c) == IsAlpha(c) \/ c = "U0130"

\* NUMERAL_RE.match(tok): ^\d+[a-z]?$ with re.IGNORECASE
NumeralBody(tok) ==
    LET n == Len(tok) IN
    /\ n >= 1
    /\ IsDigit(tok[1])
    /\ \/ \A i \in 1..n : IsDigit(tok[i])
       \/ /\ MatchesLetterClass(tok[n])
          /\ \A i \in 1..(n - 1) : IsDigit(tok[i])

\* $ also matches just before a newline that ends the string
NUMERAL_RE(tok) ==
    \/ NumeralBody(tok)
    \/ /\ tok # <<>>
       /\ tok[Len(tok)] = "\n"
       /\ NumeralBody(SubSeq(tok, 1, Len(tok) - 1))

\* the table with its upper-case keys only
CONFUSIONS_upper_keys(tok) ==
    CASE tok = <<"S">> -> <<"5">>
      [] tok = <<"O">> -> <<"0">>
      [] tok \in {<<"I">>, <<"L">>} -> <<"1">>
      [] OTHER -> tok

CONFUSIONS(tok) ==
    CASE tok \in {<<"S">>, <<"s">>} -> <<"5">>
      [] tok \in {<<"O">>, <<"o">>} -> <<"0">>
      [] tok \in {<<"I">>, <<"l">>, <<"L">>} -> <<"1">>
      [] OTHER -> tok

\* correct_confusion without the rule for "36"
correct_confusion_table_only(tok) ==
    IF CONFUSIONS(tok) # tok THEN CONFUSIONS(tok) ELSE tok

correct_confusion(tok) ==
    IF CONFUSIONS(tok) # tok THEN CONFUSIONS(tok)
    ELSE IF tok = <<"3", "6">> THEN <<"3", "c">>
    ELSE tok

\* Hit(id, box)
Hit(id, box) == [id |-> id, box |-> box]

\* the first loop of ocr_numerals: one Hit per accepted token, in token order.
\* A token of the OCR engine is [text, left, top, width, height].
RECURSIVE accepted_hits(_, _, _)
accepted_hits(data, W, H) ==
    IF data = <<>> THEN <<>>
    ELSE
        LET t    == Head(data)
            tok0 == Strip(t.text)
            tok  == IF Len(tok0) <= 2 THEN correct_confusion(tok0) ELSE tok0
            rest == accepted_hits(Tail(data), W, H)
        IN  IF tok0 = <<>> THEN rest
            ELSE IF ~NUMERAL_RE(tok) THEN rest
            ELSE << Hit(Lower(tok),
                        clamp(t.left, t.top, t.left + t.width, t.top + t.height, W, H)) >>
                 \o rest

\* the second loop with >= for >: the last of the largest boxes is kept
RECURSIVE keep_largest_or_equal(_, _)
keep_largest_or_equal(best, found) ==
    IF found = <<>> THEN best
    ELSE
        LET h == Head(found)
            at == {i \in 1..Len(best) : best[i].id = h.id}
        IN  IF at = {} THEN keep_largest_or_equal(Append(best, h), Tail(found))
            ELSE LET i == CHOOSE j \in at : TRUE IN
                 IF area(h.box) >= area(best[i].box)
                 THEN keep_largest_or_equal([best EXCEPT ![i] = h], Tail(found))
                 ELSE keep_largest_or_equal(best, Tail(found))

\* the second loop: best is a dict keyed by id, kept here as the sequence of
\* its values in insertion order (a replaced value keeps its key's place)
RECURSIVE keep_largest(_, _)
keep_largest(best, found) ==
    IF found = <<>> THEN best
    ELSE
        LET h == Head(found)
            at == {i \in 1..Len(best) : best[i].id = h.id}
        IN  IF at = {} THEN keep_largest(Append(best, h), Tail(found))
            ELSE LET i == CHOOSE j \in at : TRUE IN
                 IF area(h.box) > area(best[i].box)
                 THEN keep_largest([best EXCEPT ![i] = h], Tail(found))
                 ELSE keep_largest(best, Tail(found))

ocr_numerals(data, W, H) == keep_largest(<<>>, accepted_hits(data, W, H))

-----------------------------------------------------------------------------
(* JSON values and oracle replies *)

JNull       == [ty |-> "null"]
JNum(n)     == [ty |-> "num", n |-> n]       \* n counts tenths
JStr(s)     == [ty |-> "str", s |-> s]
JList(items) == [ty |-> "list", items |-> items]
JObj(d)     == [ty |-> "obj", d |-> d]       \* d: a function from keys to values
NotJson     == [ty |-> "invalid"]            \* a text json.loads rejects

\* client.chat.completions.create(...) as the caller sees it
ReplyRaise      == [kind |-> "raise"]                 \* the call raises
ReplyNoContent  == [kind |-> "none"]                  \* message.content is None
\* the oracle does not answer.  The calls pass no timeout and the client is
\* built with its defaults (utils/utils.py), so the call ends only when the
\* client gives up, by raising
ReplyTimeout    == [kind |-> "timeout"]
ReplyText(json) == [kind |-> "text", json |-> json]   \* content is a text

\* the result of a call that may raise
Return(v)  == [raised |-> FALSE, exc |-> "", val |-> v]
Raise(exc) == [raised |-> TRUE, exc |-> exc, val |-> <<>>]

\* d.get(key, default)
Get(d, key, default) == IF key \in DOMAIN d THEN d[key] ELSE default

\* d[key] = v
Put(d, key, v) == [k \in DOMAIN d \cup {key} |-> IF k = key THEN v ELSE d[k]]

-----------------------------------------------------------------------------
(* A) GPT pre-pass: claims -> candidate vocab *)

VocabCap     == 60
MaxPhraseLen == 64

FALLBACK_NO_CLAIMS ==
    << <<"s","e","m","i","c","o","n","d","u","c","t","o","r"," ","c","o","m","p","o","n","e","n","t">>,
       <<"m","a","i","n"," ","b","o","d","y">>,
       <<"t","e","r","m","i","n","a","l">>,
       <<"s","i","g","n","a","l"," ","t","e","r","m","i","n","a","l">>,
       <<"g","r","o","u","n","d"," ","t","e","r","m","i","n","a","l">>,
       <<"u","n","u","s","e","d"," ","t","e","r","m","i","n","a","l">>,
       <<"c","i","r","c","u","i","t"," ","b","o","a","r","d">>,
       <<"w","i","r","i","n","g"," ","p","a","t","t","e","r","n">>,
       <<"f","i","r","s","t"," ","t","r","a","c","e">>,
       <<"s","e","c","o","n","d"," ","t","r","a","c","e">>,
       <<"t","h","i","r","d"," ","l","a","n","d">>,
       <<"f","i","r","s","t"," ","l","a","n","d">>,
       <<"s","e","c","o","n","d"," ","l","a","n","d">>,
       <<"c","o","n","n","e","c","t","i","n","g"," ","t","r","a","c","e">>,
       <<"c","o","n","n","e","c","t","i","n","g"," ","m","e","m","b","e","r">>,
       <<"i","n","s","u","l","a","t","i","n","g"," ","f","i","l","m">>,
       <<"r","e","s","i","s","t"," ","f","i","l","m">>,
       <<"s","i","l","k"," ","f","i","l","m">>,
       <<"m","e","t","a","l","l","i","c"," ","b","o","d","y">>,
       <<"t","h","e","r","m","a","l"," ","v","i","a">>,
       <<"h","e","a","t","-","r","a","d","i","a","t","i","n","g"," ","m","e","m","b","e","r">> >>

FALLBACK_PARSE_FAILED ==
    << <<"t","e","r","m","i","n","a","l">>,
       <<"s","i","g","n","a","l"," ","t","e","r","m","i","n","a","l">>,
       <<"g","r","o","u","n","d"," ","t","e","r","m","i","n","a","l">>,
       <<"u","n","u","s","e","d"," ","t","e","r","m","i","n","a","l">>,
       <<"w","i","r","i","n","g"," ","p","a","t","t","e","r","n">>,
       <<"f","i","r","s","t"," ","l","a","n","d">>,
       <<"s","e","c","o","n","d"," ","l","a","n","d">>,
       <<"t","h","i","r","d"," ","l","a","n","d">>,
       <<"t","r","a","c","e">>,
       <<"d","i","e"," ","p","a","d">>,
       <<"i","n","s","u","l","a","t","i","n","g"," ","f","i","l","m">>,
       <<"t","h","e","r","m","a","l"," ","v","i","a">>,
       <<"h","e","a","t","-","r","a","d","i","a","t","i","n","g"," ","m","e","m","b","e","r">>,
       <<"m","a","i","n"," ","b","o","d","y">>,
       <<"c","i","r","c","u","i","t"," ","b","o","a","r","d">> >>

\* list(dict.fromkeys(seq)): the first occurrence of each entry, in order
Dedupe(seq) ==
    LET first == {i \in DOMAIN seq : \A j \in 1..(i - 1) : seq[j] # seq[i]}
        place == [i \in first |-> Cardinality({j \in first : j <= i})]
        nth(k) == CHOOSE i \in first : place[i] = k
    IN  [k \in 1..Cardinality(first) |-> seq[nth(k)]]

\* the order sorted() gives to a list with these str keys: the index at i
\* goes after every index whose key is less, and after every earlier index of
\* an equal key (the sort is stable)
SortOrder(keys) ==
    LET before(i) == {j \in DOMAIN keys :
                        \/ StrLess(keys[j], keys[i])
                        \/ keys[j] = keys[i] /\ j < i}
        rank  == [i \in DOMAIN keys |-> Cardinality(before(i))]
    IN  [k \in DOMAIN keys |-> CHOOSE i \in DOMAIN keys : rank[i] = k - 1]

\* sorted(seq) on a list of str
Sorted(seq) == [k \in DOMAIN seq |-> seq[SortOrder(seq)[k]]]

\* seq[:n] left out: the whole list
PrefixKeepsAll(seq, n) == seq

\* seq[:n]
Prefix(seq, n) == SubSeq(seq, 1, min(n, Len(seq)))

\* iteration that takes a value that is not iterable as empty
IterateOrEmpty(v) ==
    CASE v.ty = "list" -> Return(v.items)
      [] v.ty = "str"  -> Return([i \in 1..Len(v.s) |-> JStr(<< v.s[i] >>)])
      [] OTHER         -> Return(<<>>)

\* what "for s in v" iterates over: Raise for a value that is not iterable
Iterate(v) ==
    CASE v.ty = "list" -> Return(v.items)
      [] v.ty = "str"  -> Return([i \in 1..Len(v.s) |-> JStr(<< v.s[i] >>)])
      [] v.ty = "obj"  -> Return(<<>>)   \* only the empty object is drawn
      [] OTHER         -> Raise("TypeError")

\* the body of the try block of extract_vocab_with_gpt
vocab_from_content(content) ==
    IF content.ty = "invalid" THEN Raise("JSONDecodeError")
    ELSE IF content.ty # "obj" THEN Raise("AttributeError")
    ELSE
        LET it == Iterate(Get(content.d, "vocabulary", JList(<<>>))) IN
        IF it.raised THEN it
        ELSE IF \E i \in 1..Len(it.val) : it.val[i].ty # "str"
             THEN Raise("AttributeError")
        ELSE
            LET kept  == SelectSeq(it.val,
                            LAMBDA x : 1 <= Len(Strip(x.s))
                                       /\ Len(Strip(x.s)) <= MaxPhraseLen)
                lowered == [i \in 1..Len(kept) |-> Lower(Strip(kept[i].s))]
            IN  Return(Prefix(Sorted(Dedupe(lowered)), VocabCap))

\* extract_vocab_with_gpt testing the text for emptiness without strip()
extract_vocab_unstripped(claims_text, reply) ==
    IF claims_text = <<>>
    THEN [called |-> FALSE] @@ Return(FALLBACK_NO_CLAIMS)
    ELSE [called |-> TRUE] @@
         ( IF reply.kind = "raise" THEN Raise("APIError")
           ELSE IF reply.kind = "timeout" THEN Raise("APITimeoutError")
           ELSE IF reply.kind = "none" THEN Raise("AttributeError")
           ELSE LET r == vocab_from_content(reply.json) IN
                IF r.raised THEN Return(FALLBACK_PARSE_FAILED) ELSE r )

\* extract_vocab_with_gpt(claims_text), given the reply the oracle would make;
\* called tells whether the oracle was asked
extract_vocab_with_gpt(claims_text, reply) ==
    IF Strip(claims_text) = <<>>
    THEN [called |-> FALSE] @@ Return(FALLBACK_NO_CLAIMS)
    ELSE [called |-> TRUE] @@
         ( IF reply.kind = "raise" THEN Raise("APIError")
           ELSE IF reply.kind = "timeout" THEN Raise("APITimeoutError")
           ELSE IF reply.kind = "none" THEN Raise("AttributeError")
           ELSE LET r == vocab_from_content(reply.json) IN
                IF r.raised THEN Return(FALLBACK_PARSE_FAILED) ELSE r )

-----------------------------------------------------------------------------
(* 2) Crops *)

TIGHT_PAD == 28
WIDE_PAD  == 160

\* make_crops with the two radii exchanged
make_crops_swapped(W, H, box_xyxy) ==
    [tight |-> pad_xyxy(box_xyxy, WIDE_PAD, W, H),
     wide  |-> pad_xyxy(box_xyxy, TIGHT_PAD, W, H)]

\* make_crops(pil, box_xyxy): the two regions handed to pil.crop
make_crops(W, H, box_xyxy) ==
    [tight |-> pad_xyxy(box_xyxy, TIGHT_PAD, W, H),
     wide  |-> pad_xyxy(box_xyxy, WIDE_PAD, W, H)]

-----------------------------------------------------------------------------
(* 3) VLM per numeral, and 4) the per-numeral part of run *)

S_unknown     == <<"u","n","k","n","o","w","n">>
S_parse_error == <<"p","a","r","s","e","_","e","r","r","o","r">>

\* int(s) for a str of digits
RECURSIVE ParseInt(_)
ParseInt(s) ==
    IF s = <<>> THEN 0
    ELSE 10 * ParseInt(SubSeq(s, 1, Len(s) - 1)) + (IndexIn(Digits, s[Len(s)]) - 1)

AllDigits(s) == s # <<>> /\ \A i \in 1..Len(s) : IsDigit(s[i])

\* float(v), in tenths.  Of the str values, "<digits>" and "<digits>.<digit>"
\* are read as numbers and any other str drawn here is one float() rejects.
float(v) ==
    CASE v.ty = "num" -> Return(v.n)
      [] v.ty = "str" ->
            LET s == Strip(v.s) IN
            IF AllDigits(s) THEN Return(10 * ParseInt(s))
            ELSE IF /\ Len(s) >= 3
                    /\ s[Len(s) - 1] = "."
                    /\ IsDigit(s[Len(s)])
                    /\ AllDigits(SubSeq(s, 1, Len(s) - 2))
                 THEN Return(10 * ParseInt(SubSeq(s, 1, Len(s) - 2))
                             + ParseInt(<< s[Len(s)] >>))
            ELSE Raise("ValueError")
      [] OTHER -> Raise("TypeError")

\* ask_vlm_for_name without its try/except: json.loads raises to the caller
ask_vlm_for_name_unguarded(num_id, vocabulary, claims_text, reply) ==
    IF reply.kind = "raise" THEN Raise("APIError")
    ELSE IF reply.kind = "timeout" THEN Raise("APITimeoutError")
    ELSE IF reply.kind = "none" THEN Raise("AttributeError")
    ELSE IF reply.json.ty = "invalid" THEN Raise("JSONDecodeError")
    ELSE Return(reply.json)

\* ask_vlm_for_name(num_id, tight_url, wide_url, vocab, claims_text), given
\* the reply the oracle would make: the parsed reply, whatever JSON value it is
ask_vlm_for_name(num_id, vocabulary, claims_text, reply) ==
    IF reply.kind = "raise" THEN Raise("APIError")
    ELSE IF reply.kind = "timeout" THEN Raise("APITimeoutError")
    ELSE IF reply.kind = "none" THEN Raise("AttributeError")
    ELSE IF reply.json.ty = "invalid"
         THEN Return(JObj([id |-> JStr(num_id), name |-> JStr(S_unknown),
                           confidence |-> JNum(0), evidence |-> JStr(S_parse_error)]))
    ELSE Return(reply.json)

\* the gate with <= for <: a confidence equal to the threshold is gated too
attach_and_threshold_inclusive(ans, box, thresh) ==
    IF ans.ty # "obj" THEN Raise("TypeError")
    ELSE
        LET d == Put(ans.d, "bbox_xyxy", box)
            c == float(Get(d, "confidence", JNum(0)))
        IN  IF c.raised THEN c
            ELSE IF c.val <= thresh THEN Return(Put(d, "name", JStr(S_unknown)))
            ELSE Return(d)

\* the bbox attached and the name left as the oracle gave it
attach_without_threshold(ans, box, thresh) ==
    IF ans.ty # "obj" THEN Raise("TypeError")
    ELSE
        LET d == Put(ans.d, "bbox_xyxy", box)
            c == float(Get(d, "confidence", JNum(0)))
        IN  IF c.raised THEN c ELSE Return(d)

\* run, after ask_vlm_for_name: attach bbox; threshold low confidence to
\* 'unknown'.  The value is the dict appended to components.
attach_and_threshold(ans, box, thresh) ==
    IF ans.ty # "obj" THEN Raise("TypeError")
    ELSE
        LET d == Put(ans.d, "bbox_xyxy", box)
            c == float(Get(d, "confidence", JNum(0)))
        IN  IF c.raised THEN c
            ELSE IF c.val < thresh THEN Return(Put(d, "name", JStr(S_unknown)))
            ELSE Return(d)

\* sorted(hits, key=lambda z: z.id): stable, by str comparison of the ids
sorted_by_id(found) ==
    LET order == SortOrder([i \in DOMAIN found |-> found[i].id])
    IN  [k \in DOMAIN found |-> found[order[k]]]

-----------------------------------------------------------------------------
(* Specification SpecGeom: the geometry helpers on one box *)

MaxDim  == 2   \* image sides 0..MaxDim
MaxOver == 1   \* coordinates reach MaxOver beyond the image on either side

Coord == (0 - MaxOver)..(MaxDim + MaxOver)

\* the paddings drawn: none, and one that reaches beyond MaxOver
Pads == {0, 2}

GeomIdle ==
    /\ g_box = <<0, 0, 0, 0>> /\ g_W = 0 /\ g_H = 0 /\ g_out = <<>> /\ g_pc = "idle"
    /\ g_pad = 0 /\ g_once = <<>> /\ g_twice = <<>> /\ g_crops = <<>>

GeomInit ==
    /\ g_box \in Coord \X Coord \X Coord \X Coord
    /\ g_W \in 0..MaxDim
    /\ g_H \in 0..MaxDim
    /\ g_out = <<>>
    /\ g_pad \in Pads
    /\ g_once = <<>> /\ g_twice = <<>> /\ g_crops = <<>>
    /\ g_pc = "in"

ApplyClamp ==
    /\ g_pc \in {"in", "padded_twice"}
    /\ g_out' = clamp(g_box[1], g_box[2], g_box[3], g_box[4], g_W, g_H)
    /\ g_pc' = "clamped"
    /\ UNCHANGED << g_box, g_W, g_H, g_pad, g_once, g_twice, g_crops >>
    /\ UNCHANGED << ocrVars, vocabVars, runVars, tokVars, retryVars, chunkVars >>

\* pad_xyxy(g_box, g_pad, g_W, g_H)
ApplyPad ==
    /\ g_pc = "in"
    /\ g_once' = pad_xyxy(g_box, g_pad, g_W, g_H)
    /\ g_pc' = "padded"
    /\ UNCHANGED << g_box, g_W, g_H, g_out, g_pad, g_twice, g_crops >>
    /\ UNCHANGED << ocrVars, vocabVars, runVars, tokVars, retryVars, chunkVars >>

\* pad_xyxy applied to the box pad_xyxy returned
ApplyPadAgain ==
    /\ g_pc = "padded"
    /\ g_twice' = pad_xyxy(g_once, g_pad, g_W, g_H)
    /\ g_pc' = "padded_twice"
    /\ UNCHANGED << g_box, g_W, g_H, g_out, g_pad, g_once, g_crops >>
    /\ UNCHANGED << ocrVars, vocabVars, runVars, tokVars, retryVars, chunkVars >>

-----------------------------------------------------------------------------
(* Specification SpecCrop: make_crops on one box lying within the image *)

\* image sides: smaller than the tight radius, between the two radii, and
\* larger than twice the wide radius
CropSides == { 0, 20, 100, 400 }

CropCoords == { 0, 10, 20, 40, 100, 200, 230, 400 }

CropInit ==
    /\ g_W \in CropSides
    /\ g_H \in CropSides
    /\ g_box \in { b \in CropCoords \X CropCoords \X CropCoords \X CropCoords :
                     /\ b[1] <= b[3] /\ b[3] <= g_W
                     /\ b[2] <= b[4] /\ b[4] <= g_H }
    /\ g_out = <<>> /\ g_pad = 0 /\ g_once = <<>> /\ g_twice = <<>> /\ g_crops = <<>>
    /\ g_pc = "box"

\* make_crops(pil, g_box), up to the two calls of pil.crop
MakeCrops ==
    /\ g_pc = "box"
    /\ g_crops' = make_crops(g_W, g_H, g_box)
    /\ g_pc' = "cropped"
    /\ UNCHANGED << g_box, g_W, g_H, g_out, g_pad, g_once, g_twice >>
    /\ UNCHANGED << ocrVars, vocabVars, runVars, tokVars, retryVars, chunkVars >>

-----------------------------------------------------------------------------
(* Specification SpecOcr: ocr_numerals on the tokens of one OCR pass *)

MaxTokens == 3   \* tokens in one OCR pass
OcrSide   == 20  \* side of the image of the OCR pass

OcrTexts ==
    { <<"1", "2">>, <<" ", "1", "2">>, <<"3", "C">>, <<"3", "6">>, <<"A", "B">> }

\* <<left, top, width, height>>: areas 50, 120, 50 again, and a token
\* reported beyond the image
OcrBoxes ==
    { <<0, 0, 10, 5>>, <<2, 3, 12, 10>>, <<5, 5, 5, 10>>,
      <<OcrSide + 5, OcrSide + 5, 4, 4>> }

OcrTokens ==
    { [text |-> x, left |-> b[1], top |-> b[2], width |-> b[3], height |-> b[4]] :
        x \in OcrTexts, b \in OcrBoxes }

OcrIdle ==
    /\ o_data = <<>> /\ o_W = 0 /\ o_H = 0 /\ o_hits = <<>> /\ o_pc = "idle"

OcrInit ==
    /\ o_data = <<>>
    /\ o_W = OcrSide
    /\ o_H = OcrSide
    /\ o_hits = <<>>
    /\ o_pc = "scan"

\* the OCR engine reports one more token
OcrToken ==
    /\ o_pc = "scan"
    /\ Len(o_data) < MaxTokens
    /\ \E t \in OcrTokens : o_data' = Append(o_data, t)
    /\ UNCHANGED << o_W, o_H, o_hits, o_pc >>
    /\ UNCHANGED << geomVars, vocabVars, runVars, tokVars, retryVars, chunkVars >>

\* ocr_numerals returns
OcrLocate ==
    /\ o_pc = "scan"
    /\ o_hits' = ocr_numerals(o_data, o_W, o_H)
    /\ o_pc' = "located"
    /\ UNCHANGED << o_data, o_W, o_H >>
    /\ UNCHANGED << geomVars, vocabVars, runVars, tokVars, retryVars, chunkVars >>

-----------------------------------------------------------------------------
(* Specification SpecTok: correct_confusion, and ocr_numerals on an OCR     *)
(* pass of one token, for every short text over TokChars                    *)

MaxTokLen == 3   \* characters in the text of the token

TokChars == { "S", "l", "1", "3", "6", "c", "C", "A", " ", "U0130" }

\* the keys of CONFUSIONS, and every text of up to MaxTokLen characters
TokTexts ==
    { <<"S">>, <<"s">>, <<"O">>, <<"o">>, <<"I">>, <<"l">>, <<"L">> }
    \cup SeqsUpTo(TokChars, MaxTokLen)

\* the token the OCR engine reports with the text x
TokToken(x) == [text |-> x, left |-> 2, top |-> 3, width |-> 4, height |-> 5]

TokInit ==
    /\ t_text \in TokTexts
    /\ t_fixed = <<>>
    /\ t_hits = <<>>
    /\ t_pc = "in"

\* correct_confusion(t_text)
TokCorrect ==
    /\ t_pc = "in"
    /\ t_fixed' = correct_confusion(t_text)
    /\ t_pc' = "corrected"
    /\ UNCHANGED << t_text, t_hits >>
    /\ UNCHANGED << geomVars, ocrVars, vocabVars, runVars, retryVars, chunkVars >>

\* ocr_numerals on an image whose OCR pass reports the one token
TokLocate ==
    /\ t_pc = "corrected"
    /\ t_hits' = ocr_numerals(<< TokToken(t_text) >>, OcrSide, OcrSide)
    /\ t_pc' = "located"
    /\ UNCHANGED << t_text, t_fixed >>
    /\ UNCHANGED << geomVars, ocrVars, vocabVars, runVars, retryVars, chunkVars >>

-----------------------------------------------------------------------------
(* Specification SpecVocab: extract_vocab_with_gpt on one reference text *)

MaxReplyLen == 62  \* phrases in a long reply of the vocabulary oracle
MaxShortLen == 2   \* phrases in a reply drawn from RawPhrases

S_claim == <<"a"," ","d","i","e"," ","p","a","d">>

VocabTexts == { <<>>, <<" ", "\n">>, S_claim }

\* n distinct two-letter phrases, the last in sorted order first
DistinctPhrases(n) ==
    [i \in 1..n |-> JStr(<< Lowers[((n - i) \div 26) + 1], Lowers[((n - i) % 26) + 1] >>)]

\* the character c, n times
LongPhrase(c, n) == [i \in 1..n |-> c]

RawPhrases ==
    { JStr(<<"d","i","e"," ","p","a","d">>), JStr(<<" ","D","i","e"," ","P","a","d"," ">>),
      JStr(<<"t","r","a","c","e">>), JStr(<<" ">>), JNum(10),
      JStr(LongPhrase("b", MaxPhraseLen)), JStr(LongPhrase("b", MaxPhraseLen + 1)),
      JStr(LongPhrase("U0130", MaxPhraseLen)) }

VocabObj(v) == ReplyText(JObj([vocabulary |-> v]))

VocabReplies ==
    { ReplyRaise, ReplyTimeout, ReplyNoContent, ReplyText(NotJson), ReplyText(JNull),
      ReplyText(JList(<<>>)), ReplyText(JObj(<<>>)),
      VocabObj(JNull), VocabObj(JStr(<<"a","b">>)), VocabObj(JObj(<<>>)) }
    \cup { VocabObj(JList(DistinctPhrases(n))) : n \in (0..6) \cup ((VocabCap - 1)..MaxReplyLen) }
    \cup { VocabObj(JList(q)) : q \in SeqsUpTo(RawPhrases, MaxShortLen) }

VocabIdle ==
    /\ v_text = <<>> /\ v_reply = ReplyRaise /\ v_out = Raise("") /\ v_pc = "idle"

VocabInit ==
    /\ v_text \in VocabTexts
    /\ v_reply = ReplyRaise
    /\ v_out = Raise("")
    /\ v_pc = "call"

\* extract_vocab_with_gpt(v_text) returns or raises
VocabExtract ==
    /\ v_pc = "call"
    /\ \E r \in VocabReplies :
         /\ v_reply' = r
         /\ v_out' = extract_vocab_with_gpt(v_text, r)
    /\ v_pc' = IF v_out'.raised THEN "raised" ELSE "returned"
    /\ UNCHANGED v_text
    /\ UNCHANGED << geomVars, ocrVars, runVars, tokVars, retryVars, chunkVars >>

-----------------------------------------------------------------------------
(* Specification Spec: one call of run(image_path, claims_path, out_path,  *)
(* conf_thresh), a step at each file, OCR or oracle access                 *)

MaxRunTokens == 2   \* tokens the OCR engine reports in a run

Thresholds == {0, 5, 10}

S_path   == <<"c",".","t","x","t">>
S_widget == <<"w","i","d","g","e","t">>
S_999    == <<"9","9","9">>
S_high   == <<"h","i","g","h">>
S_0_3    == <<"0",".","3">>
S_seen   == <<"s","e","e","n">>

ClaimsPaths == { <<>>, S_path }
\* what is found at claims_path: no readable file, or a file with this text
NoFile == [readable |-> FALSE, text |-> <<>>]
ClaimsFiles == { NoFile } \cup { [readable |-> TRUE, text |-> t] : t \in {<<" ", "\n">>, S_claim} }

\* what is found at image_path: no readable image, or an image of this size
NoImage == [readable |-> FALSE, size |-> <<0, 0>>]
Images == { NoImage, [readable |-> TRUE, size |-> <<40, 30>>] }

RunTokens ==
    { [text |-> <<"9">>,      left |-> 2,  top |-> 2,  width |-> 6, height |-> 8],
      [text |-> <<"1", "0">>, left |-> 20, top |-> 5,  width |-> 9, height |-> 8],
      [text |-> <<"3", "a">>, left |-> 10, top |-> 15, width |-> 0, height |-> 0],
      [text |-> <<"A", "B">>, left |-> 30, top |-> 20, width |-> 9, height |-> 8] }

RunVocabReplies ==
    { ReplyRaise, ReplyTimeout, ReplyNoContent, ReplyText(NotJson),
      VocabObj(JList(<<>>)),
      VocabObj(JList(<< JStr(<<"t","r","a","c","e">>), JStr(<<"D","i","e"," ","p","a","d">>) >>)) }

VlmObj(id, name, confidence) ==
    ReplyText(JObj([id |-> id, name |-> name, confidence |-> confidence,
                    evidence |-> JStr(S_seen)]))

\* the replies drawn for the numeral num_id, asked with the vocabulary v
VlmReplies(num_id, v) ==
    LET member == JStr(IF v = <<>> THEN S_unknown ELSE v[1]) IN
    { ReplyRaise, ReplyTimeout, ReplyNoContent, ReplyText(NotJson), ReplyText(JList(<<>>)),
      ReplyText(JObj(<<>>)),
      VlmObj(JStr(num_id), member, JNum(9)),
      VlmObj(JStr(num_id), member, JNum(5)),
      VlmObj(JStr(num_id), member, JNum(3)),
      VlmObj(JStr(num_id), member, JNum(15)),
      VlmObj(JStr(num_id), member, JStr(S_0_3)),
      VlmObj(JStr(num_id), member, JStr(S_high)),
      VlmObj(JStr(num_id), member, JNull),
      VlmObj(JStr(S_999), JStr(S_widget), JNum(9)),
      VlmObj(JStr(num_id), JStr(<< "UD800" >>), JNum(9)) }

FigureId == "figure.png"   \* os.path.basename(image_path)

RunIdle ==
    /\ pc = "idle" /\ conf_thresh = 0 /\ claims_path = <<>> /\ claims = <<>>
    /\ vocab = <<>> /\ vocab_calls = 0 /\ size = <<0, 0>> /\ hits = <<>>
    /\ todo = <<>> /\ components = <<>> /\ vlm_log = <<>> /\ written = <<>>
    /\ error = "" /\ io_log = <<>> /\ vocab_log = <<>>
    /\ out_file = "untouched"

RunInit ==
    /\ pc = "read_text"
    /\ conf_thresh \in Thresholds
    /\ claims_path \in ClaimsPaths
    /\ claims = <<>> /\ vocab = <<>> /\ vocab_calls = 0 /\ size = <<0, 0>>
    /\ hits = <<>> /\ todo = <<>> /\ components = <<>> /\ vlm_log = <<>>
    /\ written = <<>> /\ error = "" /\ io_log = <<>> /\ vocab_log = <<>>
    /\ out_file = "untouched"

\* claims = read_text(claims_path)
ReadText ==
    /\ pc = "read_text"
    /\ \E f \in ClaimsFiles :
         IF claims_path = <<>>
         THEN claims' = <<>> /\ pc' = "vocab" /\ error' = error
         ELSE IF f.readable
         THEN claims' = f.text /\ pc' = "vocab" /\ error' = error
         ELSE claims' = claims /\ pc' = "aborted" /\ error' = "FileNotFoundError"
    /\ io_log' = IF claims_path = <<>> THEN io_log ELSE Append(io_log, "open_claims")
    /\ UNCHANGED << conf_thresh, claims_path, vocab, vocab_calls, vocab_log, size, hits, todo,
                    components, vlm_log, written, out_file >>
    /\ UNCHANGED << geomVars, ocrVars, vocabVars, tokVars, retryVars, chunkVars >>

\* vocab = extract_vocab_with_gpt(claims)
BuildVocab ==
    /\ pc = "vocab"
    /\ \E r \in RunVocabReplies :
         LET res == extract_vocab_with_gpt(claims, r) IN
         /\ vocab_calls' = vocab_calls + (IF res.called THEN 1 ELSE 0)
         /\ vocab_log' = IF res.called THEN Append(vocab_log, r) ELSE vocab_log
         /\ io_log' = IF res.called THEN Append(io_log, "vocab_oracle") ELSE io_log
         /\ IF res.raised
            THEN vocab' = vocab /\ pc' = "aborted" /\ error' = res.exc
            ELSE vocab' = res.val /\ pc' = "open_image" /\ error' = error
    /\ UNCHANGED << conf_thresh, claims_path, claims, size, hits, todo, components,
                    vlm_log, written, out_file >>
    /\ UNCHANGED << geomVars, ocrVars, vocabVars, tokVars, retryVars, chunkVars >>

\* pil = Image.open(image_path).convert("RGB"); W,H = pil.size
OpenImage ==
    /\ pc = "open_image"
    /\ \E img \in Images :
         IF img.readable
         THEN size' = img.size /\ pc' = "ocr" /\ error' = error
         ELSE size' = size /\ pc' = "aborted" /\ error' = "FileNotFoundError"
    /\ io_log' = Append(io_log, "open_image")
    /\ UNCHANGED << conf_thresh, claims_path, claims, vocab, vocab_calls, vocab_log, hits, todo,
                    components, vlm_log, written, out_file >>
    /\ UNCHANGED << geomVars, ocrVars, vocabVars, tokVars, retryVars, chunkVars >>

\* hits = ocr_numerals(pil), and the order of the loop over sorted(hits)
Locate ==
    /\ pc = "ocr"
    /\ \E data \in SeqsUpTo(RunTokens, MaxRunTokens) :
         /\ hits' = ocr_numerals(data, size[1], size[2])
         /\ todo' = sorted_by_id(hits')
         /\ pc' = IF hits' = <<>> THEN "write_empty" ELSE "classify"
    /\ io_log' = Append(io_log, "ocr")
    /\ UNCHANGED << conf_thresh, claims_path, claims, vocab, vocab_calls, vocab_log, size,
                    components, vlm_log, written, out_file, error >>
    /\ UNCHANGED << geomVars, ocrVars, vocabVars, tokVars, retryVars, chunkVars >>

\* the empty result written without the return that follows it
WriteEmptyFallsThrough ==
    /\ pc = "write_empty"
    /\ written' = Append(written, [figure_id |-> FigureId, components |-> <<>>,
                                   note |-> "no_numerals_found"])
    /\ out_file' = "document"
    /\ io_log' = Append(io_log, "write")
    /\ pc' = "write"
    /\ UNCHANGED << conf_thresh, claims_path, claims, vocab, vocab_calls, vocab_log, size, hits,
                    todo, components, vlm_log, error >>
    /\ UNCHANGED << geomVars, ocrVars, vocabVars, tokVars, retryVars, chunkVars >>

\* if not hits: write the empty result and return
WriteEmpty ==
    /\ pc = "write_empty"
    /\ written' = Append(written, [figure_id |-> FigureId, components |-> <<>>,
                                   note |-> "no_numerals_found"])
    /\ out_file' = "document"
    /\ io_log' = Append(io_log, "write")
    /\ pc' = "done"
    /\ UNCHANGED << conf_thresh, claims_path, claims, vocab, vocab_calls, vocab_log, size, hits,
                    todo, components, vlm_log, error >>
    /\ UNCHANGED << geomVars, ocrVars, vocabVars, tokVars, retryVars, chunkVars >>

\* one turn of the loop over sorted(hits).  The boxes drawn lie inside the
\* image, so both padded crop regions have positive width and height.
Classify ==
    /\ pc = "classify"
    /\ LET h == Head(todo) IN
       \E reply \in VlmReplies(h.id, vocab) :
         LET ans == ask_vlm_for_name(h.id, vocab, claims, reply)
             rec == IF ans.raised THEN ans
                    ELSE attach_and_threshold(ans.val, h.box, conf_thresh)
         IN  /\ vlm_log' = Append(vlm_log, [num_id |-> h.id, box |-> h.box,
                                            crops |-> make_crops(size[1], size[2], h.box),
                                            vocab |-> vocab, reply |-> reply])
             /\ io_log' = Append(io_log, "vlm_oracle")
             /\ IF rec.raised
                THEN /\ pc' = "aborted" /\ error' = rec.exc
                     /\ UNCHANGED << todo, components >>
                ELSE /\ components' = Append(components, rec.val)
                     /\ todo' = Tail(todo)
                     /\ pc' = IF Tail(todo) = <<>> THEN "write" ELSE "classify"
                     /\ error' = error
    /\ UNCHANGED << conf_thresh, claims_path, claims, vocab, vocab_calls, vocab_log, size, hits,
                    written, out_file >>
    /\ UNCHANGED << geomVars, ocrVars, vocabVars, tokVars, retryVars, chunkVars >>

\* the result written with the vocabulary put in order first
WriteResultSortedVocab ==
    /\ pc = "write"
    /\ written' = Append(written, [figure_id |-> FigureId, components |-> components,
                                   vocab_used |-> Sorted(vocab)])
    /\ out_file' = "document"
    /\ io_log' = Append(io_log, "write")
    /\ pc' = "done"
    /\ UNCHANGED << conf_thresh, claims_path, claims, vocab, vocab_calls, vocab_log,
                    size, hits, todo, components, vlm_log, error >>
    /\ UNCHANGED << geomVars, ocrVars, vocabVars, tokVars, retryVars, chunkVars >>

\* a str that the utf-8 file cannot encode: one holding a lone surrogate
Unencodable(v) == v.ty = "str" /\ \E i \in 1..Len(v.s) : v.s[i] = "UD800"

\* json.dump(result, f, ensure_ascii=False) raises on a record of components.
\* The values drawn for a record are scalars, and the vocabularies drawn
\* hold no surrogate.
DumpRaises(comps) ==
    \E i \in 1..Len(comps) :
        \E key \in DOMAIN comps[i] \ {"bbox_xyxy"} : Unencodable(comps[i][key])

\* result = {...}; with open(out_path, "w") as f: json.dump(result, f).
\* open truncates the file before json.dump serialises: when json.dump
\* raises, the text written so far stays in the file.
WriteResult ==
    /\ pc = "write"
    /\ IF DumpRaises(components)
       THEN /\ out_file' = "truncated"
            /\ pc' = "aborted"
            /\ error' = "UnicodeEncodeError"
            /\ UNCHANGED written
       ELSE /\ written' = Append(written, [figure_id |-> FigureId,
                                           components |-> components,
                                           vocab_used |-> vocab])
            /\ out_file' = "document"
            /\ pc' = "done"
            /\ UNCHANGED error
    /\ io_log' = Append(io_log, "write")
    /\ UNCHANGED << conf_thresh, claims_path, claims, vocab, vocab_calls, vocab_log, size, hits,
                    todo, components, vlm_log >>
    /\ UNCHANGED << geomVars, ocrVars, vocabVars, tokVars, retryVars, chunkVars >>

-----------------------------------------------------------------------------
(* Specification SpecRetry: one call of make_api_call_with_retry of         *)
(* openai_exp_2_cot.py (the same text as in openai_exp_2_domain.py).  The   *)
(* content of a reply is a str here, and api_delay counts whole seconds.    *)

MaxRetries == 3   \* max_retries is drawn from 0..MaxRetries

Delays == { 1, 2 }   \* CONFIG["api_delay"]

S_ok == <<"o","k">>

RetryReplies ==
    { ReplyRaise, ReplyTimeout, ReplyNoContent,
      ReplyText(S_ok), ReplyText(<<" ", "o", "k", "\n">>) }

\* the exception an attempt ends with, "" when it returns
AttemptException(reply) ==
    CASE reply.kind = "raise"   -> "APIError"
      [] reply.kind = "timeout" -> "APITimeoutError"
      [] reply.kind = "none"    -> "AttributeError"
      [] OTHER                  -> ""

\* the backoff starting at api_delay for the first retry
wait_time_from_delay(api_delay, attempt) == api_delay * (2 ^ (attempt - 1))

\* wait_time = CONFIG["api_delay"] * (2 ** attempt)
wait_time(api_delay, attempt) == api_delay * (2 ^ attempt)

RetryInit ==
    /\ r_max \in 0..MaxRetries
    /\ r_delay \in Delays
    /\ r_attempt = 0
    /\ r_calls = <<>>
    /\ r_sleeps = <<>>
    /\ r_out = Raise("")
    /\ r_pc = "loop"

\* one turn of "for attempt in range(max_retries)": the backoff sleep, the
\* call, and either the rate-limiting sleep and the return, or the except
\* branch.  A reply without content fails at .strip(), after the
\* rate-limiting sleep.
RetryAttempt ==
    /\ r_pc = "loop"
    /\ r_attempt < r_max
    /\ \E reply \in RetryReplies :
         LET backed == IF r_attempt > 0
                       THEN Append(r_sleeps, [why |-> "backoff", attempt |-> r_attempt,
                                              secs |-> wait_time(r_delay, r_attempt)])
                       ELSE r_sleeps
             rate   == [why |-> "rate", attempt |-> r_attempt, secs |-> r_delay]
         IN  /\ r_calls' = Append(r_calls, reply)
             /\ r_sleeps' = IF reply.kind \in {"text", "none"}
                            THEN Append(backed, rate) ELSE backed
             /\ IF reply.kind = "text"
                THEN /\ r_out' = Return(Strip(reply.json))
                     /\ r_pc' = "returned"
                     /\ UNCHANGED r_attempt
                ELSE IF r_attempt = r_max - 1
                THEN /\ r_out' = Raise(AttemptException(reply))
                     /\ r_pc' = "raised"
                     /\ UNCHANGED r_attempt
                ELSE /\ r_attempt' = r_attempt + 1
                     /\ UNCHANGED << r_out, r_pc >>
    /\ UNCHANGED << r_max, r_delay >>
    /\ UNCHANGED << geomVars, ocrVars, vocabVars, runVars, tokVars, chunkVars >>

\* the loop ends without a return or a raise: return ""
RetryFallThrough ==
    /\ r_pc = "loop"
    /\ r_attempt >= r_max
    /\ r_out' = Return(<<>>)
    /\ r_pc' = "returned"
    /\ UNCHANGED << r_max, r_delay, r_attempt, r_calls, r_sleeps >>
    /\ UNCHANGED << geomVars, ocrVars, vocabVars, runVars, tokVars, chunkVars >>

-----------------------------------------------------------------------------
(* Specification SpecChunk: one call of generate_chunked_desc of            *)
(* ReferenceCode/openai_generation.py.  The content of a reply is a str; an *)
(* instruction is kept as its template and the claim formatted into it.     *)

MaxChunkLines == 3   \* lines of the claims text

ChunkLines ==
    { <<"1", ".", " ", "a">>, <<"2", ".", "b">>, <<" ", "3", ".">>, <<"x">>, <<>> }

\* "\n".join(lines)
RECURSIVE JoinLines(_)
JoinLines(lines) ==
    IF lines = <<>> THEN <<>>
    ELSE IF Len(lines) = 1 THEN lines[1]
    ELSE lines[1] \o <<"\n">> \o JoinLines(Tail(lines))

ChunkTexts == { JoinLines(q) : q \in SeqsUpTo(ChunkLines, MaxChunkLines) }

ChunkReplies ==
    { ReplyRaise, ReplyNoContent, ReplyText(<<"g">>), ReplyText(<<" ", "h", "\n">>) }

\* claims.split('\n')
RECURSIVE SplitLines(_)
SplitLines(text) ==
    IF \A i \in 1..Len(text) : text[i] # "\n" THEN << text >>
    ELSE LET k == CHOOSE i \in 1..Len(text) :
                    text[i] = "\n" /\ \A j \in 1..(i - 1) : text[j] # "\n"
         IN  << SubSeq(text, 1, k - 1) >> \o SplitLines(SubSeq(text, k + 1, Len(text)))

\* pattern.match(line.strip()) for ^\d{1,3}\.
PatternMatches(line) ==
    LET t == Strip(line) IN
    \E k \in 1..3 :
        /\ Len(t) > k
        /\ \A i \in 1..k : IsDigit(t[i])
        /\ t[k + 1] = "."

\* the loop of split_claims over the lines from index i down to 1, with the
\* final_split_claims and full_line built from the lines after i
RECURSIVE split_loop(_, _, _, _)
split_loop(lines, i, final, full_line) ==
    IF i = 0 THEN final
    ELSE IF PatternMatches(lines[i])
         THEN split_loop(lines, i - 1,
                         << IF full_line # <<>> THEN lines[i] \o <<"\n">> \o full_line
                            ELSE lines[i] >> \o final,
                         <<>>)
         ELSE split_loop(lines, i - 1, final, lines[i] \o full_line)

split_claims(text) ==
    LET lines == SplitLines(text) IN split_loop(lines, Len(lines), <<>>, <<>>)

\* INIT_INSTRUCTION.format(claim=claim), CONTINUE_INSTRUCTION.format(claim=claim)
Instruction(template, claim) == [template |-> template, claim |-> claim]

Message(role, content) == [role |-> role, content |-> content]

\* chatgpt_chatbot(messages) of utils/utils.py, given the oracle's reply
chatgpt_chatbot(messages, reply) ==
    IF reply.kind = "raise" THEN Raise("APIError")
    ELSE IF reply.kind = "none" THEN Raise("AttributeError")
    ELSE Return(Strip(reply.json))

ChunkInit ==
    /\ c_claims \in ChunkTexts
    /\ c_split = <<>> /\ c_next = 0 /\ c_messages = <<>> /\ c_sent = <<>>
    /\ c_full = <<>> /\ c_out = Raise("") /\ c_pc = "start"

\* claims_split = split_claims(claims); messages = [the first instruction]
ChunkStart ==
    /\ c_pc = "start"
    /\ c_split' = split_claims(c_claims)
    /\ IF c_split' = <<>>
       THEN /\ c_out' = Raise("IndexError")
            /\ c_pc' = "raised"
            /\ UNCHANGED << c_messages, c_next >>
       ELSE /\ c_messages' = << Message("user", Instruction("INIT_INSTRUCTION", c_split'[1])) >>
            /\ c_next' = 2
            /\ c_pc' = "loop"
            /\ UNCHANGED c_out
    /\ UNCHANGED << c_claims, c_sent, c_full >>
    /\ UNCHANGED << geomVars, ocrVars, vocabVars, runVars, tokVars, retryVars >>

\* one turn of "for claim in claims_split[1:]"
ChunkTurn ==
    /\ c_pc = "loop"
    /\ c_next <= Len(c_split)
    /\ \E reply \in ChunkReplies :
         LET generation == chatgpt_chatbot(c_messages, reply) IN
         /\ c_sent' = Append(c_sent, c_messages)
         /\ IF generation.raised
            THEN /\ c_out' = generation
                 /\ c_pc' = "raised"
                 /\ UNCHANGED << c_full, c_messages, c_next >>
            ELSE /\ c_full' = c_full \o generation.val \o <<"\n">>
                 /\ c_messages' = c_messages \o
                      << Message("assistant", generation.val),
                         Message("user", Instruction("CONTINUE_INSTRUCTION",
                                                     c_split[c_next])) >>
                 /\ c_next' = c_next + 1
                 /\ UNCHANGED << c_out, c_pc >>
    /\ UNCHANGED << c_claims, c_split >>
    /\ UNCHANGED << geomVars, ocrVars, vocabVars, runVars, tokVars, retryVars >>

\* return full_generation
ChunkReturn ==
    /\ c_pc = "loop"
    /\ c_next > Len(c_split)
    /\ c_out' = Return(c_full)
    /\ c_pc' = "returned"
    /\ UNCHANGED << c_claims, c_split, c_next, c_messages, c_sent, c_full >>
    /\ UNCHANGED << geomVars, ocrVars, vocabVars, runVars, tokVars, retryVars >>

-----------------------------------------------------------------------------
TokIdle ==
    /\ t_text = <<>> /\ t_fixed = <<>> /\ t_hits = <<>> /\ t_pc = "idle"

RetryIdle ==
    /\ r_max = 0 /\ r_delay = 0 /\ r_attempt = 0 /\ r_calls = <<>>
    /\ r_sleeps = <<>> /\ r_out = Raise("") /\ r_pc = "idle"

ChunkIdle ==
    /\ c_claims = <<>> /\ c_split = <<>> /\ c_next = 0 /\ c_messages = <<>>
    /\ c_sent = <<>> /\ c_full = <<>> /\ c_out = Raise("") /\ c_pc = "idle"

-----------------------------------------------------------------------------
InitGeom == GeomInit /\ OcrIdle /\ VocabIdle /\ RunIdle /\ TokIdle /\ RetryIdle /\ ChunkIdle
NextGeom == ApplyClamp \/ ApplyPad \/ ApplyPadAgain
SpecGeom == InitGeom /\ [][NextGeom]_vars

InitOcr == OcrInit /\ GeomIdle /\ VocabIdle /\ RunIdle /\ TokIdle /\ RetryIdle /\ ChunkIdle
NextOcr == OcrToken \/ OcrLocate
SpecOcr == InitOcr /\ [][NextOcr]_vars

InitVocab == VocabInit /\ GeomIdle /\ OcrIdle /\ RunIdle /\ TokIdle /\ RetryIdle /\ ChunkIdle
NextVocab == VocabExtract
SpecVocab == InitVocab /\ [][NextVocab]_vars

InitCrop == CropInit /\ OcrIdle /\ VocabIdle /\ RunIdle /\ TokIdle /\ RetryIdle /\ ChunkIdle
NextCrop == MakeCrops
SpecCrop == InitCrop /\ [][NextCrop]_vars

InitTok == TokInit /\ GeomIdle /\ OcrIdle /\ VocabIdle /\ RunIdle /\ RetryIdle /\ ChunkIdle
NextTok == TokCorrect \/ TokLocate
SpecTok == InitTok /\ [][NextTok]_vars

InitRetry == RetryInit /\ GeomIdle /\ OcrIdle /\ VocabIdle /\ RunIdle /\ TokIdle /\ ChunkIdle
NextRetry == RetryAttempt \/ RetryFallThrough
SpecRetry == InitRetry /\ [][NextRetry]_vars

InitChunk == ChunkInit /\ GeomIdle /\ OcrIdle /\ VocabIdle /\ RunIdle /\ TokIdle /\ RetryIdle
NextChunk == ChunkStart \/ ChunkTurn \/ ChunkReturn
SpecChunk == InitChunk /\ [][NextChunk]_vars

Init == RunInit /\ GeomIdle /\ OcrIdle /\ VocabIdle /\ TokIdle /\ RetryIdle /\ ChunkIdle
Next ==
    \/ ReadText
    \/ BuildVocab
    \/ OpenImage
    \/ Locate
    \/ WriteEmpty
    \/ Classify
    \/ WriteResult
Spec == Init /\ [][Next]_vars

-----------------------------------------------------------------------------
(* Properties *)

\* what ask_vlm_for_name returned to run in its i-th call
AnswerOf(i) ==
    ask_vlm_for_name(vlm_log[i].num_id, vlm_log[i].vocab, claims, vlm_log[i].reply).val

\* the confidence run reads from an answer: float(ans.get("confidence", 0.0))
ConfidenceOf(ans) == float(Get(ans.d, "confidence", JNum(0)))

\* the component lists run holds or has written
ComponentLists ==
    { components } \cup { written[k].components : k \in DOMAIN written }

\* C1: a numeral whose answer carries a confidence strictly below conf_thresh
\* is recorded under the name "unknown", whatever name the oracle proposed.
C1_LowConfidenceIsUnknown ==
    \A comps \in ComponentLists :
        \A i \in DOMAIN comps :
            ( /\ ~ConfidenceOf(AnswerOf(i)).raised
              /\ ConfidenceOf(AnswerOf(i)).val < conf_thresh )
                => /\ "name" \in DOMAIN comps[i]
                   /\ comps[i]["name"] = JStr(S_unknown)

\* a finished run with threshold 0.5 whose oracle proposed a vocabulary member
\* with confidence 0.3, recorded as "unknown"
C1_Witness ==
    /\ pc = "done"
    /\ conf_thresh = 5
    /\ \E i \in DOMAIN vlm_log :
         /\ vocab # <<>>
         /\ vlm_log[i].reply = VlmObj(JStr(vlm_log[i].num_id), JStr(vocab[1]), JNum(3))
         /\ written[1].components[i]["name"] = JStr(S_unknown)

\* C2 (as stated): when the classifier call raises for one numeral and
\* succeeds for another, the run is not aborted and the failed numeral gets a
\* fallback record (name "unknown", evidence parse_error).
C2_OracleFailureIsolated ==
    \A i \in DOMAIN vlm_log :
        ( /\ vlm_log[i].reply.kind = "raise"
          /\ \E j \in DOMAIN vlm_log :
                /\ vlm_log[j].reply.kind = "text"
                /\ vlm_log[j].reply.json.ty = "obj" )
        => /\ pc # "aborted"
           /\ i <= Len(components)
           /\ components[i]["name"] = JStr(S_unknown)
           /\ components[i]["evidence"] = JStr(S_parse_error)

\* C3: a reply that is not JSON gives the record {id: the numeral, name:
\* "unknown", confidence: 0.0, evidence: "parse_error"} with the bbox of the
\* numeral's hit, at every threshold; it never ends the run, and a run that
\* finishes has recorded every numeral.
C3_ParseErrorRecord ==
    /\ \A i \in DOMAIN vlm_log :
         vlm_log[i].reply = ReplyText(NotJson)
         => /\ i <= Len(components)
            /\ \E k \in DOMAIN hits :
                 /\ hits[k].id = vlm_log[i].num_id
                 /\ \A comps \in ComponentLists :
                      i <= Len(comps) =>
                        comps[i] = [id |-> JStr(hits[k].id),
                                    name |-> JStr(S_unknown),
                                    confidence |-> JNum(0),
                                    evidence |-> JStr(S_parse_error),
                                    bbox_xyxy |-> hits[k].box]
    /\ pc \in {"classify", "write", "done"} /\ hits # <<>>
         => Len(components) + Len(todo) = Len(hits)
    /\ pc = "done" /\ hits # <<>>
         => Len(written[1].components) = Len(hits)

\* a finished run of two numerals, the first reply not JSON, the second an object
C3_Witness ==
    /\ pc = "done"
    /\ Len(vlm_log) = 2
    /\ vlm_log[1].reply = ReplyText(NotJson)
    /\ vlm_log[2].reply.kind = "text"
    /\ vlm_log[2].reply.json.ty = "obj"
    /\ Len(written[1].components) = 2

\* C4 (as stated): every name in a written ResultSet is "unknown" or a member
\* of vocab_used, whatever the oracle returns.
C4_NamesFromVocabulary ==
    \A k \in DOMAIN written :
        \A i \in DOMAIN written[k].components :
            LET c == written[k].components[i] IN
            "name" \in DOMAIN c
                => \/ c["name"] = JStr(S_unknown)
                   \/ \E j \in DOMAIN written[k].vocab_used :
                        c["name"] = JStr(written[k].vocab_used[j])

\* the number an identifier starts with, and the letter that may follow it
NumeralValue(id) ==
    ParseInt(SelectSeq(id, IsDigit))
NumeralSuffix(id) ==
    SelectSeq(id, IsAlpha)
NumeralBefore(a, b) ==
    \/ NumeralValue(a) < NumeralValue(b)
    \/ /\ NumeralValue(a) = NumeralValue(b)
       /\ StrLess(NumeralSuffix(a), NumeralSuffix(b))

\* C5 (as stated): the records of a ResultSet follow the numeric value of
\* their numerals' identifiers, then the suffix letter (9 before 10).
C5_ComponentsInNumericOrder ==
    pc = "done" /\ hits # <<>>
        => \A i, j \in DOMAIN written[1].components :
             i < j => NumeralBefore(vlm_log[i].num_id, vlm_log[j].num_id)

\* C6: ocr_numerals returns each identifier once, with the box of largest area
\* among the accepted tokens of that identifier, the first seen of the largest.
C6_DedupKeepsLargestFirstSeen ==
    o_pc = "located" =>
        LET cand == accepted_hits(o_data, o_W, o_H) IN
        /\ \A i, j \in DOMAIN o_hits : o_hits[i].id = o_hits[j].id => i = j
        /\ \A m \in DOMAIN cand : \E i \in DOMAIN o_hits : o_hits[i].id = cand[m].id
        /\ \A i \in DOMAIN o_hits :
             \E k \in DOMAIN cand :
                /\ cand[k] = o_hits[i]
                /\ \A m \in DOMAIN cand :
                     cand[m].id = cand[k].id
                     => /\ area(cand[m].box) <= area(cand[k].box)
                        /\ area(cand[m].box) = area(cand[k].box) => m >= k

\* two tokens of one identifier with different boxes of the same largest area:
\* the first is kept
C6_Witness ==
    /\ o_pc = "located"
    /\ LET cand == accepted_hits(o_data, o_W, o_H) IN
       \E k, m \in DOMAIN cand :
          /\ k < m
          /\ cand[k].id = cand[m].id
          /\ cand[k].box # cand[m].box
          /\ area(cand[k].box) = area(cand[m].box)
          /\ area(cand[k].box) > 0
          /\ \E i \in DOMAIN o_hits : o_hits[i] = cand[k]

\* C7: with no hits, run writes {components: [], note: "no_numerals_found"}
\* and returns without a classifier call.
C7_NoHitsShortCircuit ==
    /\ pc = "write_empty" => hits = <<>> /\ vlm_log = <<>> /\ written = <<>>
    /\ pc = "done" /\ hits = <<>>
         => /\ written = << [figure_id |-> FigureId, components |-> <<>>,
                             note |-> "no_numerals_found"] >>
            /\ vlm_log = <<>>

C7_Witness ==
    /\ pc = "done"
    /\ hits = <<>>
    /\ Len(written) = 1

\* C8 (as stated): a finished run with hits holds exactly one record per hit,
\* and each record's id is the identifier of its hit.
C8_OneRecordPerHitWithItsId ==
    pc = "done" /\ hits # <<>>
        => /\ Len(written[1].components) = Len(hits)
           /\ \A k \in DOMAIN hits :
                \E i \in DOMAIN written[1].components :
                    LET c == written[1].components[i] IN
                    "id" \in DOMAIN c /\ c["id"] = JStr(hits[k].id)

C10_VocabSizeFiveToSixty ==
    v_pc = "returned"
        => Len(v_out.val) >= 5 /\ Len(v_out.val) <= VocabCap

\* C10 (amended): the vocabulary returned has at most 60 entries; it has
\* fewer than 5 only for a non-blank text and a reply that parses to a JSON
\* object.
C10_VocabSizeAtMostSixty ==
    v_pc = "returned"
        => /\ Len(v_out.val) <= VocabCap
           /\ Len(v_out.val) < 5
                => /\ Strip(v_text) # <<>>
                   /\ v_reply.kind = "text"
                   /\ v_reply.json.ty = "obj"

\* a reply of more than 60 distinct phrases, cut to 60
C10_Witness ==
    /\ v_pc = "returned"
    /\ v_out.called
    /\ v_reply = VocabObj(JList(DistinctPhrases(VocabCap + 1)))
    /\ Len(v_out.val) = VocabCap

\* C11: for a non-empty reference text and any reply of the oracle, every
\* entry of the vocabulary returned is lowercase, has 1 to 64 characters and
\* occurs once, and the vocabulary has at most 60 entries.
C11_EntriesLowerBoundedUnique ==
    (v_pc = "returned" /\ v_text # <<>>) =>
        /\ Len(v_out.val) <= VocabCap
        /\ \A i \in 1..Len(v_out.val) :
              /\ Lower(v_out.val[i]) = v_out.val[i]
              /\ 1 <= Len(v_out.val[i])
              /\ Len(v_out.val[i]) <= MaxPhraseLen
              /\ \A j \in 1..Len(v_out.val) : v_out.val[j] = v_out.val[i] => j = i

\* C12: for an empty or whitespace-only reference text, whatever the oracle
\* would reply, extract_vocab_with_gpt returns the fixed fallback of 21
\* phrases and does not call the oracle.
C12_BlankTextFallbackWithoutCall ==
    (v_pc # "call" /\ v_pc # "idle" /\ Strip(v_text) = <<>>) =>
        /\ v_pc = "returned"
        /\ ~v_out.called
        /\ v_out.val = FALLBACK_NO_CLAIMS
        /\ Len(v_out.val) = 21

C12_Witness ==
    /\ v_pc = "returned"
    /\ v_text = <<" ", "\n">>
    /\ v_reply.kind = "text"
    /\ ~v_out.called
    /\ v_out.val = FALLBACK_NO_CLAIMS

\* the reply text is the structured response: an object whose "vocabulary"
\* is a list of strings
IsVocabularyResponse(reply) ==
    /\ reply.kind = "text"
    /\ reply.json.ty = "obj"
    /\ "vocabulary" \in DOMAIN reply.json.d
    /\ reply.json.d.vocabulary.ty = "list"
    /\ \A i \in 1..Len(reply.json.d.vocabulary.items) :
          reply.json.d.vocabulary.items[i].ty = "str"

\* the try block of extract_vocab_with_gpt raises on the reply text: it is
\* not JSON, not an object, or its "vocabulary" cannot be iterated or holds
\* an item that is not a string
VocabularyParseFails(reply) ==
    /\ reply.kind = "text"
    /\ \/ reply.json.ty # "obj"
       \/ /\ "vocabulary" \in DOMAIN reply.json.d
          /\ \/ reply.json.d.vocabulary.ty \notin {"list", "str", "obj"}
             \/ /\ reply.json.d.vocabulary.ty = "list"
                /\ \E i \in 1..Len(reply.json.d.vocabulary.items) :
                      reply.json.d.vocabulary.items[i].ty # "str"

C14_VocabularyFailureNeverAborts ==
    (vocab_log # <<>> /\ vocab_log[1].kind \in {"raise", "none"}) =>
        /\ pc # "aborted"
        /\ \A k \in 1..Len(written) :
             "vocab_used" \in DOMAIN written[k] =>
                 written[k].vocab_used \in {FALLBACK_NO_CLAIMS, FALLBACK_PARSE_FAILED}

\* C15: every document written holds the figure identifier, the component
\* list and the vocabulary used, the document of a figure without numerals
\* included.
C15_EveryDocumentHasVocabulary ==
    \A k \in 1..Len(written) :
        {"figure_id", "components", "vocab_used"} \subseteq DOMAIN written[k]

\* the vocabulary extract_vocab_with_gpt returned to run
BuiltVocabulary ==
    IF vocab_log = <<>> THEN FALLBACK_NO_CLAIMS
    ELSE extract_vocab_with_gpt(claims, vocab_log[1]).val

\* the positions of an access in io_log
Accesses(op) == {i \in 1..Len(io_log) : io_log[i] = op}

\* C16: the vocabulary is built once, before any classifier call; every
\* classifier call is given that vocabulary, and vocab_used of the document
\* written is that vocabulary, unmodified.
C16_OneVocabularyThroughout ==
    /\ Len(vocab_log) <= 1
    /\ Cardinality(Accesses("vocab_oracle")) = Len(vocab_log)
    /\ \A i \in Accesses("vocab_oracle"), j \in Accesses("vlm_oracle") : i < j
    /\ pc \notin {"read_text", "vocab", "aborted"} => vocab = BuiltVocabulary
    /\ \A i \in 1..Len(vlm_log) : vlm_log[i].vocab = BuiltVocabulary
    /\ \A k \in 1..Len(written) :
         "vocab_used" \in DOMAIN written[k] => written[k].vocab_used = BuiltVocabulary

C16_Witness ==
    /\ pc = "done"
    /\ Len(vocab_log) = 1
    /\ Len(vlm_log) = 2
    /\ vlm_log[1].vocab = vlm_log[2].vocab
    /\ Len(vlm_log[1].vocab) = 2
    /\ Len(written) = 1
    /\ "vocab_used" \in DOMAIN written[1]
    /\ written[1].vocab_used = vlm_log[1].vocab

\* C17: the confidence of every component record is a number in [0, 1]
\* (0..10 tenths), whatever confidence, or none, the oracle returned.
C17_ConfidenceInUnitInterval ==
    \A comps \in ComponentLists : \A i \in 1..Len(comps) :
        /\ "confidence" \in DOMAIN comps[i]
        /\ comps[i].confidence.ty = "num"
        /\ 0 <= comps[i].confidence.n
        /\ comps[i].confidence.n <= 10

\* C18: a missing or unreadable text or image file ends run before any other
\* work: when opening the image fails, no vocabulary oracle call, OCR pass or
\* classifier call has been made; when opening the text file fails, nothing
\* else has been done.
C18_MissingInputBeforeAnyWork ==
    /\ (pc = "aborted" /\ io_log # <<>> /\ io_log[Len(io_log)] = "open_image") =>
           /\ error = "FileNotFoundError"
           /\ Accesses("vocab_oracle") = {}
           /\ Accesses("ocr") = {}
           /\ Accesses("vlm_oracle") = {}
    /\ (pc = "aborted" /\ io_log # <<>> /\ io_log[Len(io_log)] = "open_claims") =>
           /\ error = "FileNotFoundError"
           /\ io_log = << "open_claims" >>

\* the record of the parse-error outcome for the numeral num_id
IsParseErrorRecord(c, num_id) ==
    /\ {"id", "name", "confidence", "evidence"} \subseteq DOMAIN c
    /\ c.id = JStr(num_id)
    /\ c.name = JStr(S_unknown)
    /\ c.confidence = JNum(0)
    /\ c.evidence = JStr(S_parse_error)

\* C19: a classifier call that the oracle does not answer is cut off by a
\* timeout; its numeral is recorded as "unknown" with an evidence text, and
\* the run goes on to the remaining numerals instead of ending there.
C19_TimeoutRecordedAsUnknown ==
    \A i \in 1..Len(vlm_log) :
        vlm_log[i].reply.kind = "timeout" =>
            /\ pc # "aborted"
            /\ i <= Len(components)
            /\ {"name", "evidence"} \subseteq DOMAIN components[i]
            /\ components[i].name = JStr(S_unknown)

\* a classifier reply that is JSON but not an object with a numeric confidence
SchemaViolation(reply) ==
    /\ reply.kind = "text"
    /\ reply.json.ty # "invalid"
    /\ \/ reply.json.ty # "obj"
       \/ /\ "confidence" \in DOMAIN reply.json.d
          /\ reply.json.d.confidence.ty # "num"

\* C20: a classifier reply that parses as JSON but is not an object, or whose
\* confidence is not a number, is recorded as the parse-error outcome, and no
\* exception leaves run.
C20_SchemaViolationIsParseError ==
    \A i \in 1..Len(vlm_log) :
        SchemaViolation(vlm_log[i].reply) =>
            /\ pc # "aborted"
            /\ i <= Len(components)
            /\ IsParseErrorRecord(components[i], vlm_log[i].num_id)

\* C23: with pad = 0, padding is idempotent: pad_xyxy applied to its own
\* result returns that result, and the result is clamp of the box.
C23_PadZeroIdempotent ==
    (g_pad = 0 /\ g_twice # <<>>) =>
        /\ g_twice = g_once
        /\ g_once = clamp(g_box[1], g_box[2], g_box[3], g_box[4], g_W, g_H)
        /\ g_pc = "clamped" => g_out = g_once

C23_Witness ==
    /\ g_pc = "clamped"
    /\ g_pad = 0
    /\ g_box[1] < 0
    /\ g_box[4] > g_H
    /\ g_once # g_box
    /\ g_twice = g_once
    /\ g_out = g_once

\* C21: correct_confusion depends on the token alone: S, s give "5"; O, o
\* give "0"; I, l, L give "1"; "36" gives "3c"; every other token is returned
\* unchanged.  The locator corrects only trimmed tokens of 1 or 2 characters.
C21_CorrectConfusionTable ==
    /\ t_pc \in {"corrected", "located"} =>
         /\ t_text \in {<<"S">>, <<"s">>} => t_fixed = <<"5">>
         /\ t_text \in {<<"O">>, <<"o">>} => t_fixed = <<"0">>
         /\ t_text \in {<<"I">>, <<"l">>, <<"L">>} => t_fixed = <<"1">>
         /\ t_text = <<"3", "6">> => t_fixed = <<"3", "c">>
         /\ t_text \notin {<<"S">>, <<"s">>, <<"O">>, <<"o">>, <<"I">>, <<"l">>, <<"L">>,
                           <<"3", "6">>} => t_fixed = t_text
    /\ (t_pc = "located" /\ t_hits # <<>>) =>
         /\ Len(t_hits) = 1
         /\ Len(Strip(t_text)) > 2 => t_hits[1].id = Lower(Strip(t_text))
         /\ Len(Strip(t_text)) = 1 => t_hits[1].id \in {<<"5">>, <<"0">>, <<"1">>, Strip(t_text)}

C21_Witness ==
    /\ t_pc = "located"
    /\ t_text = <<" ", "l">>
    /\ t_fixed = t_text
    /\ Len(t_hits) = 1
    /\ t_hits[1].id = <<"1">>

\* digits, then at most one lower-case letter
IsNumeralId(id) ==
    /\ id # <<>>
    /\ IsDigit(id[1])
    /\ \A i \in 1..(Len(id) - 1) : IsDigit(id[i])
    /\ IsDigit(id[Len(id)]) \/ InSeq(Lowers, id[Len(id)])

\* one or more digits, then optionally one letter of either case
IsNumeralToken(tok) ==
    /\ tok # <<>>
    /\ IsDigit(tok[1])
    /\ \A i \in 1..(Len(tok) - 1) : IsDigit(tok[i])
    /\ IsDigit(tok[Len(tok)]) \/ IsAlpha(tok[Len(tok)]) \/ tok[Len(tok)] = "U0130"

\* the token of the locator for a text: trimmed, corrected when short
LocatorToken(text) ==
    IF Len(Strip(text)) <= 2 THEN correct_confusion(Strip(text)) ELSE Strip(text)

\* C22: the locator accepts the trimmed, corrected token exactly when it is
\* one or more digits optionally followed by one letter of either case; the
\* identifier of the hit is the token in lower case, and so is digits followed
\* by at most one lower-case letter.
C22_AcceptedTokensAndIds ==
    t_pc = "located" =>
        /\ t_hits # <<>> <=> IsNumeralToken(LocatorToken(t_text))
        /\ \A i \in 1..Len(t_hits) :
             /\ t_hits[i].id = Lower(LocatorToken(t_text))
             /\ IsNumeralId(t_hits[i].id)

\* C24: the bbox of every component record is the box of its hit and a
\* non-empty region of the image: 0 <= x1 < x2 <= W and 0 <= y1 < y2 <= H,
\* whatever left, top, width and height the OCR engine reported.
C24_BboxNonEmptyInImage ==
    \A comps \in ComponentLists : \A i \in 1..Len(comps) :
        "bbox_xyxy" \in DOMAIN comps[i] =>
            LET b == comps[i].bbox_xyxy IN
            /\ \E j \in 1..Len(hits) : hits[j].box = b
            /\ 0 <= b[1] /\ b[1] < b[3] /\ b[3] <= size[1]
            /\ 0 <= b[2] /\ b[2] < b[4] /\ b[4] <= size[2]

\* C25: the output is written once, at the end of the run: nothing is at
\* out_path before every classification has finished, and a run that aborts
\* leaves no output there, partial or whole.
C25_OutputOnlyAtCompletion ==
    /\ Len(written) <= 1
    /\ Cardinality(Accesses("write")) <= 1
    /\ out_file # "untouched" =>
         /\ todo = <<>>
         /\ Len(components) = Len(hits)
         /\ \A i \in Accesses("vlm_oracle") \cup Accesses("ocr") :
              \A j \in Accesses("write") : i < j
    /\ pc = "aborted" => out_file = "untouched" /\ written = <<>>
    /\ pc = "done" => out_file = "document" /\ Len(written) = 1

\* the region a lies within the region b
Within(a, b) == b[1] <= a[1] /\ b[2] <= a[2] /\ a[3] <= b[3] /\ a[4] <= b[4]

\* C26: for a box within the image, the tight region of make_crops is the box
\* padded by 28 and clamped, the wide region the box padded by 160 and
\* clamped, and box, tight region, wide region and image are nested.
C26_CropsNested ==
    g_pc = "cropped" =>
        /\ g_crops.tight = clamp(g_box[1] - 28, g_box[2] - 28,
                                 g_box[3] + 28, g_box[4] + 28, g_W, g_H)
        /\ g_crops.wide = clamp(g_box[1] - 160, g_box[2] - 160,
                                g_box[3] + 160, g_box[4] + 160, g_W, g_H)
        /\ Within(g_box, g_crops.tight)
        /\ Within(g_crops.tight, g_crops.wide)
        /\ Within(g_crops.wide, << 0, 0, g_W, g_H >>)

C26_Witness ==
    /\ g_pc = "cropped"
    /\ g_box = << 200, 200, 230, 230 >>
    /\ g_crops.tight = << 172, 172, 258, 258 >>
    /\ g_crops.wide = << 40, 40, 390, 390 >>
    /\ g_W = 400 /\ g_H = 400

\* the number an oracle dict's confidence stands for, in tenths: 0 when the
\* field is missing
GateConfidence(d) ==
    IF "confidence" \in DOMAIN d THEN float(d.confidence).val ELSE 0

\* C27: the confidence gate changes only the name.  A record whose confidence
\* is at least the threshold (equal included) keeps the oracle's name; every
\* record keeps the oracle's other fields, confidence and evidence among them;
\* a reply without confidence is gated as one with confidence 0.0.
C27_GateChangesOnlyName ==
    \A i \in 1..Len(components) :
        LET reply == vlm_log[i].reply
            c == components[i]
        IN  (reply.kind = "text" /\ reply.json.ty = "obj") =>
            LET d == reply.json.d IN
            /\ \A key \in DOMAIN d \ {"name", "bbox_xyxy"} :
                 key \in DOMAIN c /\ c[key] = d[key]
            /\ DOMAIN c \subseteq DOMAIN d \cup {"name", "bbox_xyxy"}
            /\ GateConfidence(d) >= conf_thresh =>
                 /\ "name" \in DOMAIN d => "name" \in DOMAIN c /\ c["name"] = d["name"]
                 /\ "name" \notin DOMAIN d => "name" \notin DOMAIN c
            /\ GateConfidence(d) < conf_thresh =>
                 "name" \in DOMAIN c /\ c["name"] = JStr(S_unknown)

C27_Witness ==
    /\ conf_thresh = 5
    /\ Len(components) = 2
    /\ vocab # <<>>
    /\ vlm_log[1].reply = VlmObj(JStr(vlm_log[1].num_id), JStr(vocab[1]), JNum(5))
    /\ components[1]["name"] = JStr(vocab[1])
    /\ vlm_log[2].reply = ReplyText(JObj(<<>>))
    /\ components[2]["name"] = JStr(S_unknown)
    /\ DOMAIN components[2] = {"name", "bbox_xyxy"}

\* the box ocr_numerals gives the token t on the image of the OCR pass
TokenBox(t) == clamp(t.left, t.top, t.left + t.width, t.top + t.height, o_W, o_H)

\* C28: no hit of ocr_numerals has the identifier "36": a token "36" is
\* reported under "3c", where it competes with the tokens "3c" and "3C" for
\* the one hit of that identifier, the largest box winning.
C28_ThirtySixBecomesThreeC ==
    o_pc = "located" =>
        /\ \A i \in 1..Len(o_hits) : o_hits[i].id # <<"3", "6">>
        /\ \A k \in 1..Len(o_data) :
             Strip(o_data[k].text) \in {<<"3", "6">>, <<"3", "c">>, <<"3", "C">>} =>
                 /\ Cardinality({i \in 1..Len(o_hits) : o_hits[i].id = <<"3", "c">>}) = 1
                 /\ \A i \in 1..Len(o_hits) :
                      o_hits[i].id = <<"3", "c">> =>
                          area(o_hits[i].box) >= area(TokenBox(o_data[k]))

C28_Witness ==
    /\ o_pc = "located"
    /\ Len(o_data) = 2
    /\ o_data[1].text = <<"3", "C">>
    /\ o_data[2].text = <<"3", "6">>
    /\ area(TokenBox(o_data[2])) > area(TokenBox(o_data[1]))
    /\ o_hits = << Hit(<<"3", "c">>, TokenBox(o_data[2])) >>

\* the backoff sleeps made so far
Backoffs == { r_sleeps[i] : i \in { j \in 1..Len(r_sleeps) : r_sleeps[j].why = "backoff" } }

\* C29: for max_retries >= 1, make_api_call_with_retry calls the API at most
\* max_retries times; it returns the content of the first call that succeeds
\* and calls no more; when all max_retries attempts fail it raises the
\* exception of the last one and does not return ""; and it sleeps
\* api_delay * 2^k before attempt k, for each k >= 1 and not for k = 0.
C29_RetryContract ==
    r_max >= 1 =>
        /\ Len(r_calls) <= r_max
        /\ \A i \in 1..(Len(r_calls) - 1) : r_calls[i].kind # "text"
        /\ r_pc = "returned" =>
             /\ r_calls # <<>>
             /\ r_calls[Len(r_calls)].kind = "text"
             /\ r_out = Return(Strip(r_calls[Len(r_calls)].json))
        /\ r_pc = "raised" =>
             /\ Len(r_calls) = r_max
             /\ r_calls[r_max].kind # "text"
             /\ r_out = Raise(AttemptException(r_calls[r_max]))
        /\ r_pc = "loop" => Len(r_calls) = r_attempt /\ r_attempt < r_max
        /\ Backoffs = { [why |-> "backoff", attempt |-> k, secs |-> r_delay * (2 ^ k)] :
                          k \in 1..(Len(r_calls) - 1) }
        /\ Cardinality({ j \in 1..Len(r_sleeps) : r_sleeps[j].why = "backoff" })
              = max(0, Len(r_calls) - 1)

C29_Witness ==
    /\ r_pc = "raised"
    /\ r_max = 3
    /\ r_delay = 2
    /\ Len(r_calls) = 3
    /\ r_calls[1].kind = "raise"
    /\ r_calls[3].kind = "timeout"
    /\ r_out = Raise("APITimeoutError")
    /\ r_sleeps = << [why |-> "backoff", attempt |-> 1, secs |-> 4],
                     [why |-> "rate", attempt |-> 1, secs |-> 2],
                     [why |-> "backoff", attempt |-> 2, secs |-> 8] >>

\* the claims whose instruction is in a messages list sent to the oracle
ClaimsSent ==
    UNION { { c_sent[k][m].content.claim :
                m \in { n \in 1..Len(c_sent[k]) : c_sent[k][n].role = "user" } } :
            k \in 1..Len(c_sent) }

\* C30: for claims that split into N >= 1 numbered claims,
\* generate_chunked_desc makes one oracle call per claim: when it returns, N
\* calls were made, the instruction of every claim, the last included, was
\* sent, and the description holds N generations.
C30_OneCallPerClaim ==
    (c_pc = "returned" /\ Len(c_split) >= 1) =>
        /\ Len(c_sent) = Len(c_split)
        /\ \A n \in 1..Len(c_split) : c_split[n] \in ClaimsSent
        /\ Cardinality({ i \in 1..Len(c_full) : c_full[i] = "\n" }) = Len(c_split)

====
